---- MODULE Spec2Model ----
(***************************************************************************)
(* A model of the self-improvement engine of KaskMan                       *)
(* (src/architecture/self-improvement-algorithms.py): the continuous       *)
(* learning loop, its six stages, and the pure helpers they use.           *)
(*                                                                         *)
(* Real numbers of the source are kept exact as integers:                  *)
(*   - a confidence c is held as 100*c (hundredths); sample_size/100.0 is  *)
(*     then sample_size itself and the literal 0.7 is 70;                  *)
(*   - impact_score and feasibility_score are held as 100*score, so their  *)
(*     product is 10000 times the ranking key.                             *)
(* The IEEE products of the nine label pairs compare exactly like the real *)
(* products (equal reals give equal doubles, multiplication commutes), so  *)
(* the order and the ties of the keys are those of the source.             *)
(***************************************************************************)
EXTENDS Integers, Sequences, FiniteSets, TLC

VARIABLES
    config,           \* self.config, fixed at construction
    pc,               \* position of continuous_learning_loop
    cycle,            \* number of cycles started so far
    new_outcomes,     \* local of the loop: result of collect_learning_outcomes
    patterns,         \* local of the loop: result of analyze_patterns
    recommendations,  \* local of the loop: result of generate_improvements
    ei,               \* execute_safe_improvements: index of the next proposal
    log,              \* history: the stages and sleeps that ended, in order
    gen_invoked,      \* history: patterns whose generator the last generate call invoked
    gen_emitted,      \* history: proposals of the last generate call, in encounter order
    exec_log,         \* history: what the current execute call did, in order
    model_updates,    \* history: model updates the last update call invoked
    conf_args,        \* payloads handed to calculate_confidence
    conf_rets,        \* the confidences it returned for them
    fetched,          \* history: what the store did in the collect call just ended
    engine,           \* self.learning_buffer, self.improvement_queue, self.active_experiments
    metrics,          \* clipboard handler: learning_data["performance_metrics"]
    clip              \* clipboard handler: usage_count, and history of the last process_clipboard

vars == << config, pc, cycle, new_outcomes, patterns, recommendations, ei, log,
           gen_invoked, gen_emitted, exec_log, model_updates, conf_args, conf_rets,
           fetched, engine, metrics, clip >>

-----------------------------------------------------------------------------
(* Bounds of the model *)

MaxCycles == 2       \* cycles of the loop that are explored
MaxSample == 101     \* largest payload length handed to calculate_confidence
MaxPatterns == 2     \* longest pattern list handed to generate_improvements alone
MaxEmit == 3         \* most proposals ranked in one generate_improvements call
MaxProposals == 3    \* longest list of eligible-looking proposals handed to execute_safe_improvements alone
MaxGraded == 2       \* longest list of arbitrarily graded proposals handed to it alone
MaxRows == 1         \* most rows the store returns to one collect
MaxFetched == 2      \* rows of a batch when collect_learning_outcomes runs alone

-----------------------------------------------------------------------------
(* Generic helpers *)

Min(a, b) == IF a <= b THEN a ELSE b
Max(a, b) == IF a >= b THEN a ELSE b

Reverse(s) == [i \in 1..Len(s) |-> s[Len(s) + 1 - i]]

-----------------------------------------------------------------------------
(* Data *)

Levels == {"low", "medium", "high"}

\* ImprovementType
ImprovementTypes ==
    {"performance", "accuracy", "efficiency", "cost", "reliability", "scalability"}

\* A SystemOptimization, reduced to the fields the engine reads.
Proposal(t, c, e, i, r) ==
    [optimization_type |-> t, component |-> c, implementation_effort |-> e,
     expected_impact |-> i, risk_level |-> r]

\* A pattern payload ('data', typed Any). The engine reads three things of
\* it: its truthiness and, when it is a list, its length (calculate_confidence),
\* and what the kind-specific generator makes of it. The generators are not
\* in the source: their result for the payload (a proposal list, or an
\* exception) is part of the payload's description.
\*   shape "list" / "mapping": size is len(data)
\*   shape "scalar": size 0 is a falsy scalar (0, 0.0, False, ''), 1 a truthy one
\*   shape "none": None
Payload(sh, n, raises, out) ==
    [shape |-> sh, size |-> n, gen_raises |-> raises, gen_out |-> out]

ListPayload(n) == Payload("list", n, FALSE, << >>)

\* bool(data)
Truthy(data) == data.shape # "none" /\ data.size > 0

-----------------------------------------------------------------------------
(* calculate_confidence, in hundredths *)

calculate_confidence_unclamped(data) ==
    IF ~Truthy(data) THEN 0
    ELSE IF data.shape = "list" THEN data.size ELSE 1

calculate_confidence_sized(data) == Min(100, data.size)

calculate_confidence(data) ==
    IF ~Truthy(data)
    THEN 0
    ELSE LET sample_size == IF data.shape = "list" THEN data.size ELSE 1
         IN  Min(100, sample_size)

-----------------------------------------------------------------------------
(* impact_score and feasibility_score, in hundredths; .get(label, 0.0) *)

impact_score_default_high(impact) ==
    CASE impact = "low" -> 30
      [] impact = "medium" -> 60
      [] OTHER -> 100

impact_score(impact) ==
    CASE impact = "low" -> 30
      [] impact = "medium" -> 60
      [] impact = "high" -> 100
      [] OTHER -> 0

feasibility_score_as_impact(effort) ==
    CASE effort = "low" -> 30
      [] effort = "medium" -> 60
      [] effort = "high" -> 100
      [] OTHER -> 0

feasibility_score(effort) ==
    CASE effort = "low" -> 100
      [] effort = "medium" -> 60
      [] effort = "high" -> 30
      [] OTHER -> 0

\* The sort key of generate_improvements (the lambda), times 10000.
SortKey(x) == impact_score(x.expected_impact) * feasibility_score(x.implementation_effort)

-----------------------------------------------------------------------------
(* list.sort(key=..., reverse=True)                                        *)
(* CPython sorts stably in ascending key order; with reverse=True it       *)
(* reverses the list before and after the sort, so elements of equal key   *)
(* keep their original order in the descending result.                     *)

\* s is ascending and stable so far; x came after all of s: it goes behind
\* every element whose key is not greater than its own.
InsertStable(s, x) ==
    LET k == Cardinality({j \in 1..Len(s) : SortKey(s[j]) <= SortKey(x)})
    IN  SubSeq(s, 1, k) \o << x >> \o SubSeq(s, k + 1, Len(s))

RECURSIVE SortAscending(_)
SortAscending(s) ==
    IF s = << >> THEN << >>
    ELSE InsertStable(SortAscending(SubSeq(s, 1, Len(s) - 1)), s[Len(s)])

SortReversedAfter(s) == Reverse(SortAscending(s))

SortLowestFirst(s) == SortAscending(s)

SortDescending(s) == Reverse(SortAscending(Reverse(s)))

-----------------------------------------------------------------------------
(* generate_improvements *)

\* 0.7, the literal of the gate
GateThreshold == 70

PatternTypes ==
    {"success_factors", "failure_modes", "resource_optimization",
     "agent_performance", "temporal_patterns"}

Pattern(t, d, c) == [type |-> t, data |-> d, confidence |-> c]

AdmitsAll(confidence) == TRUE

\* the gate: 'if pattern['confidence'] < 0.7: continue'
Admits(confidence) == ~(confidence < GateThreshold)

\* The for loop over the patterns, from pattern i on. acc holds whether a
\* generator raised, the indices of the patterns whose generator was invoked,
\* and the list 'improvements'. A pattern of a type none of the five branches
\* names is passed over.
RECURSIVE GenerateLoop(_, _, _)
GenerateLoop(ps, i, acc) ==
    IF i > Len(ps) THEN acc
    ELSE LET p == ps[i] IN
         IF ~Admits(p.confidence) THEN GenerateLoop(ps, i + 1, acc)
         ELSE IF p.type \notin PatternTypes THEN GenerateLoop(ps, i + 1, acc)
         ELSE IF p.data.gen_raises
              THEN [acc EXCEPT !.raised = TRUE, !.invoked = Append(@, i)]
              ELSE GenerateLoop(ps, i + 1,
                       [acc EXCEPT !.invoked = Append(@, i),
                                   !.improvements = @ \o p.data.gen_out])

\* The whole call: raised, or the ranked list it returns.
generate_improvements(ps) ==
    LET r == GenerateLoop(ps, 1, [raised |-> FALSE, invoked |-> << >>,
                                  improvements |-> << >>])
    IN  [raised |-> r.raised, invoked |-> r.invoked, emitted |-> r.improvements,
         result |-> IF r.raised THEN << >> ELSE SortDescending(r.improvements)]


-----------------------------------------------------------------------------
(* Values of untyped places (a config entry, a column of a row) *)

Num(n) == [t |-> "number", v |-> n]
Str == [t |-> "str", v |-> 0]
Null == [t |-> "null", v |-> 0]

\* dict.get(key, default)
Get(d, key, default) == IF key \in DOMAIN d THEN d[key] ELSE default

-----------------------------------------------------------------------------
(* collect_learning_outcomes *)

ClampScoreAbove(v) == Min(100, v)

\* success_score=max(0.0, min(1.0, row['impact_score'])), in hundredths
ClampScore(v) == Max(0, Min(100, v))

\* A row whose 'impact_score' column is absent (KeyError) or NULL (TypeError
\* in min) makes the constructor of its LearningOutcome raise.
RowRaises(row) ==
    \/ "impact_score" \notin DOMAIN row
    \/ row["impact_score"].t # "number"

\* The whole call, on the rows the store returned. fetch_raises: fetch_all
\* raised; metrics_raise: row number (0: none) whose metric queries raised.
collect_learning_outcomes(fetch_raises, rows, metrics_raise) ==
    IF \/ fetch_raises
       \/ metrics_raise \in 1..Len(rows)
       \/ \E k \in 1..Len(rows) : RowRaises(rows[k])
    THEN [raised |-> TRUE, result |-> << >>]
    ELSE [raised |-> FALSE,
          result |-> [k \in 1..Len(rows) |->
                         [success_score |-> ClampScore(rows[k]["impact_score"].v)]]]

-----------------------------------------------------------------------------
(* analyze_patterns *)

\* the five sub-analyses, in the order of the code
AnalysisOrder ==
    << "success_factors", "failure_modes", "resource_optimization",
       "agent_performance", "temporal_patterns" >>

analyze_patterns_partial(outcomes, payloads, fail_at) ==
    IF outcomes = << >> THEN [raised |-> FALSE, result |-> << >>]
    ELSE [raised |-> FALSE,
          result |-> [k \in 1..(IF fail_at = 0 THEN 5 ELSE fail_at - 1) |->
                         Pattern(AnalysisOrder[k], payloads[k],
                                 calculate_confidence(payloads[k]))]]

\* payloads: what the five sub-analyses return; fail_at: the sub-analysis
\* (0: none) that raises.
analyze_patterns(outcomes, payloads, fail_at) ==
    IF outcomes = << >> THEN [raised |-> FALSE, result |-> << >>]
    ELSE IF fail_at # 0 THEN [raised |-> TRUE, result |-> << >>]
    ELSE [raised |-> FALSE,
          result |-> [k \in 1..5 |->
                         Pattern(AnalysisOrder[k], payloads[k],
                                 calculate_confidence(payloads[k]))]]

-----------------------------------------------------------------------------
(* execute_safe_improvements and implement_improvement *)

EligibleIgnoringImpact(x) ==
    /\ x.risk_level = "low"
    /\ x.implementation_effort = "low"

EligibleWhenEnabled(x) ==
    /\ "auto_improvement_enabled" \in DOMAIN config => config["auto_improvement_enabled"]
    /\ x.risk_level = "low"
    /\ x.implementation_effort = "low"
    /\ x.expected_impact \in {"medium", "high"}

\* the condition of the if in execute_safe_improvements
Eligible(x) ==
    /\ x.risk_level = "low"
    /\ x.implementation_effort = "low"
    /\ x.expected_impact \in {"medium", "high"}

DispatchedEvery == ImprovementTypes

\* the categories implement_improvement has a branch for
Dispatched == {"performance", "efficiency", "reliability", "scalability"}

\* What a call of a missing collaborator does: the category implementer
\* raises, record_improvement raises, or neither.
Outcomes == {"ok", "implementer_raises", "record_raises"}

Event(op, k) == [op |-> op, index |-> k]

implement_improvement_recording_dispatched(x, k, outcome) ==
    << Event("implement_improvement", k) >>
    \o (IF x.optimization_type \in Dispatched
        THEN << Event("implementer", k) >> ELSE << >>)
    \o (IF outcome = "implementer_raises" \/ x.optimization_type \notin Dispatched
        THEN << >> ELSE << Event("record_improvement", k) >>)

\* implement_improvement on proposal k of the list: the calls it makes.
implement_improvement(x, k, outcome) ==
    << Event("implement_improvement", k) >>
    \o (IF x.optimization_type \in Dispatched
        THEN << Event("implementer", k) >> ELSE << >>)
    \o (IF outcome = "implementer_raises"
        THEN << >> ELSE << Event("record_improvement", k) >>)

CatchesNothing(outcome) == FALSE

\* 'except Exception' around implement_improvement: every exception a
\* collaborator raises is an Exception.
Catches(outcome) == outcome # "ok"

-----------------------------------------------------------------------------
(* update_learning_models *)

UpdateOrder ==
    << "success_prediction", "resource_estimation", "quality_prediction",
       "agent_performance" >>

update_learning_models_unguarded(outcomes, fail_at) ==
    IF fail_at = 0 THEN [raised |-> FALSE, calls |-> UpdateOrder]
    ELSE [raised |-> TRUE, calls |-> SubSeq(UpdateOrder, 1, fail_at - 1)]

\* fail_at: 0: nothing raises; 1: prepare_training_data raises; k + 1: the
\* k-th model update raises.
update_learning_models(outcomes, fail_at) ==
    IF outcomes = << >> THEN [raised |-> FALSE, calls |-> << >>]
    ELSE IF fail_at = 0 THEN [raised |-> FALSE, calls |-> UpdateOrder]
    ELSE [raised |-> TRUE, calls |-> SubSeq(UpdateOrder, 1, fail_at - 1)]

-----------------------------------------------------------------------------
(* continuous_learning_loop *)

\* the statements of the try block, in order
StageOrder ==
    << "collect", "analyze", "generate", "execute", "update", "health_check", "sleep" >>

StageIndex(stage) == CHOOSE k \in 1..Len(StageOrder) : StageOrder[k] = stage

AfterReturnSwapped(stage) ==
    CASE stage = "generate" -> "update"
      [] stage = "update" -> "execute"
      [] stage = "execute" -> "health_check"
      [] stage = "sleep" -> "collect"
      [] OTHER -> StageOrder[StageIndex(stage) + 1]

AfterReturnOnce(stage) ==
    IF stage = "sleep" THEN "terminated" ELSE StageOrder[StageIndex(stage) + 1]

\* where the loop is after a statement of the try block returned; after the
\* sleep, 'while True' starts the block again
AfterReturn(stage) ==
    IF stage = "sleep" THEN "collect" ELSE StageOrder[StageIndex(stage) + 1]

AfterRaiseTerminates(stage) == "terminated"

AfterRaiseContinues(stage) == AfterReturn(stage)

AfterRaiseRestarts(stage) == "collect"

AfterRaiseKeepsList(stage) == IF stage = "generate" THEN "execute" ELSE "recovery_sleep"

\* where the loop is after a statement of the try block raised: in the
\* handler, 'except Exception', before its sleep
AfterRaise(stage) == "recovery_sleep"

\* asyncio.sleep(60) of the handler
RecoveryInterval == 60

\* the default of config.get('learning_interval', 300)
DefaultLearningInterval == 300

Entry(c, stage, result, seconds) ==
    [cycle |-> c, stage |-> stage, result |-> result, seconds |-> seconds]

Returned(stage) ==
    /\ pc' = AfterReturn(stage)
    /\ log' = Append(log, Entry(cycle, stage, "returned", 0))

Raised(stage) ==
    /\ pc' = AfterRaise(stage)
    /\ log' = Append(log, Entry(cycle, stage, "raised", 0))


-----------------------------------------------------------------------------
(* The stages, as steps of the loop. Each takes the answers of the missing  *)
(* collaborators (the store, the sub-analyses, the implementers, the model  *)
(* registry) from a set of possibilities.                                  *)

\* what the store did in one collect call: whether fetch_all raised, the rows
\* it returned (none when it raised), and the row (0: none) at which
\* get_current_system_metrics raised
Fetch(fetch_raises, rows, metrics_raise) ==
    [fetch_raises |-> fetch_raises, rows |-> rows, metrics_raise |-> metrics_raise]

\* no collect call has just ended: its rows are gone once the loop moves on
NoFetch == Fetch(FALSE, << >>, 0)

\* new_outcomes = await self.collect_learning_outcomes()
Collect(Rows, Most) ==
    /\ pc = "collect"
    /\ cycle <= MaxCycles
    /\ \E fetch_raises \in BOOLEAN :
       \E n \in 0..(IF fetch_raises THEN 0 ELSE Most) :
       \E metrics_raise \in 0..n, rows \in [1..n -> Rows] :
          LET r == collect_learning_outcomes(fetch_raises, rows, metrics_raise) IN
          /\ fetched' = Fetch(fetch_raises, rows, metrics_raise)
          /\ IF r.raised
             THEN Raised("collect") /\ UNCHANGED new_outcomes
             ELSE Returned("collect") /\ new_outcomes' = r.result
    /\ UNCHANGED << config, engine, metrics, clip, cycle, patterns, recommendations, ei, gen_invoked,
                    gen_emitted, exec_log, model_updates, conf_args, conf_rets >>

\* patterns = await self.analyze_patterns(new_outcomes)
Analyze(PayloadTuples) ==
    /\ pc = "analyze"
    /\ \E payloads \in PayloadTuples, fail_at \in 0..5 :
          LET r == analyze_patterns(new_outcomes, payloads, fail_at) IN
          IF r.raised
          THEN Raised("analyze") /\ UNCHANGED patterns
          ELSE Returned("analyze") /\ patterns' = r.result
    /\ fetched' = NoFetch
    /\ UNCHANGED << config, engine, metrics, clip, cycle, new_outcomes, recommendations, ei, gen_invoked,
                    gen_emitted, exec_log, model_updates, conf_args, conf_rets >>

\* recommendations = await self.generate_improvements(patterns); on its
\* return the loop calls execute_safe_improvements, whose for loop starts.
Generate ==
    /\ pc = "generate"
    /\ LET r == generate_improvements(patterns) IN
          /\ gen_invoked' = r.invoked
          /\ gen_emitted' = r.emitted
          /\ IF r.raised
             THEN Raised("generate") /\ UNCHANGED << recommendations, ei, exec_log >>
             ELSE /\ Returned("generate")
                  /\ recommendations' = r.result
                  /\ ei' = 1
                  /\ exec_log' = << >>
    /\ UNCHANGED << config, engine, metrics, clip, fetched, cycle, new_outcomes, patterns, model_updates,
                    conf_args, conf_rets >>

\* One iteration of the for loop of execute_safe_improvements.
ExecuteStep ==
    /\ pc = "execute"
    /\ ei <= Len(recommendations)
    /\ LET x == recommendations[ei] IN
          IF ~Eligible(x)
          THEN /\ ei' = ei + 1
               /\ UNCHANGED << pc, log, exec_log >>
          ELSE \E outcome \in Outcomes :
                  /\ outcome = "implementer_raises" => x.optimization_type \in Dispatched
                  /\ IF outcome = "ok"
                     THEN /\ exec_log' = exec_log \o implement_improvement(x, ei, outcome)
                                           \o << Event("log_info", ei) >>
                          /\ ei' = ei + 1
                          /\ UNCHANGED << pc, log >>
                     ELSE IF Catches(outcome)
                     THEN /\ exec_log' = exec_log \o implement_improvement(x, ei, outcome)
                                           \o << Event("log_error", ei) >>
                          /\ ei' = ei + 1
                          /\ UNCHANGED << pc, log >>
                     ELSE /\ exec_log' = exec_log \o implement_improvement(x, ei, outcome)
                          /\ Raised("execute")
                          /\ UNCHANGED ei
    /\ UNCHANGED << config, engine, metrics, clip, fetched, cycle, new_outcomes, patterns, recommendations,
                    gen_invoked, gen_emitted, model_updates, conf_args, conf_rets >>

\* The for loop is exhausted: execute_safe_improvements returns.
ExecuteReturn ==
    /\ pc = "execute"
    /\ ei > Len(recommendations)
    /\ Returned("execute")
    /\ UNCHANGED << config, engine, metrics, clip, fetched, cycle, new_outcomes, patterns, recommendations, ei,
                    gen_invoked, gen_emitted, exec_log, model_updates,
                    conf_args, conf_rets >>

\* await self.update_learning_models(new_outcomes)
Update ==
    /\ pc = "update"
    /\ \E fail_at \in 0..5 :
          LET r == update_learning_models(new_outcomes, fail_at) IN
          /\ model_updates' = r.calls
          /\ IF r.raised THEN Raised("update") ELSE Returned("update")
    /\ UNCHANGED << config, engine, metrics, clip, fetched, cycle, new_outcomes, patterns, recommendations, ei,
                    gen_invoked, gen_emitted, exec_log, conf_args, conf_rets >>

\* await self.system_health_check()
HealthCheck ==
    /\ pc = "health_check"
    /\ \E raises \in BOOLEAN :
          IF raises THEN Raised("health_check") ELSE Returned("health_check")
    /\ UNCHANGED << config, engine, metrics, clip, fetched, cycle, new_outcomes, patterns, recommendations, ei,
                    gen_invoked, gen_emitted, exec_log, model_updates,
                    conf_args, conf_rets >>

\* await asyncio.sleep(self.config.get('learning_interval', 300)), the last
\* statement of the try block. A delay that is no number makes sleep raise
\* TypeError, which the handler of the loop catches like any other.
Sleep ==
    /\ pc = "sleep"
    /\ LET delay == Get(config, "learning_interval", Num(DefaultLearningInterval)) IN
          IF delay.t # "number"
          THEN Raised("sleep") /\ UNCHANGED cycle
          ELSE /\ pc' = AfterReturn("sleep")
               /\ log' = Append(log, Entry(cycle, "sleep", "returned", delay.v))
               /\ cycle' = cycle + 1
    /\ UNCHANGED << config, engine, metrics, clip, fetched, new_outcomes, patterns, recommendations, ei,
                    gen_invoked, gen_emitted, exec_log, model_updates,
                    conf_args, conf_rets >>

\* logger.error(...); await asyncio.sleep(60), then 'while True' again
RecoverySleep ==
    /\ pc = "recovery_sleep"
    /\ pc' = "collect"
    /\ log' = Append(log, Entry(cycle, "recovery_sleep", "returned", RecoveryInterval))
    /\ cycle' = cycle + 1
    /\ fetched' = NoFetch
    /\ UNCHANGED << config, engine, metrics, clip, new_outcomes, patterns, recommendations, ei,
                    gen_invoked, gen_emitted, exec_log, model_updates,
                    conf_args, conf_rets >>

\* calculate_confidence applied to each payload of conf_args
CalculateConfidence ==
    /\ conf_args # << >>
    /\ conf_rets = << >>
    /\ conf_rets' = [k \in 1..Len(conf_args) |-> calculate_confidence(conf_args[k])]
    /\ UNCHANGED << config, engine, metrics, clip, fetched, pc, cycle, new_outcomes, patterns, recommendations, ei,
                    log, gen_invoked, gen_emitted, exec_log, model_updates, conf_args >>


-----------------------------------------------------------------------------
(* Inputs *)

Row(score) == [project_id |-> Str, impact_score |-> score]
RowWithoutScore == [project_id |-> Str]

\* SELF_IMPROVEMENT_CONFIG and its variations: the interval absent, shorter
\* than the recovery sleep, the shipped one, and one that is no number.
Configs ==
    {[confidence_threshold |-> Num(70)]}
    \cup {[learning_interval |-> li, confidence_threshold |-> Num(ct)] :
             li \in {Num(30), Num(300), Str}, ct \in {70}}

DefaultConfig == [learning_interval |-> Num(300), confidence_threshold |-> Num(70)]

\* rows the store returns to the loop
LoopRows == {Row(Num(140)), Row(Null), RowWithoutScore}

SafeProposal == Proposal("performance", "cache", "low", "high", "low")
ManualProposal == Proposal("reliability", "retry", "medium", "medium", "low")
UnroutedProposal == Proposal("cost", "budget", "low", "medium", "low")

\* what the five sub-analyses return to the loop
LoopPayloadTuples ==
    { << ListPayload(0), ListPayload(0), ListPayload(0), ListPayload(0), ListPayload(0) >>,
      << Payload("list", 70, FALSE, << ManualProposal, SafeProposal >>),
         Payload("list", 69, FALSE, << SafeProposal >>),
         Payload("mapping", MaxSample, FALSE, << SafeProposal >>),
         Payload("list", 100, FALSE, << UnroutedProposal >>),
         Payload("scalar", 1, FALSE, << SafeProposal >>) >>,
      << ListPayload(100), Payload("list", 100, TRUE, << >>), ListPayload(0),
         ListPayload(0), ListPayload(0) >> }

\* A success rate, the quotient num / den of two counters. The float
\* quotients of two pairs of small counters are equal exactly when the
\* fractions are, so rates are compared as fractions.
Rate(n, d) == [num |-> n, den |-> d]

\* default_learning["performance_metrics"]: no use, no error, success_rate 1.0
NewMetrics == [total_uses |-> 0, error_count |-> 0, success_rate |-> Rate(1, 1)]

\* no process_clipboard call yet
NoCall ==
    [before |-> NewMetrics, after |-> NewMetrics, detect |-> "none", store |-> "ok",
     replace |-> "ok", trigger_raises |-> FALSE, ret |-> "no_call"]

\* self.usage_count = 0
NewClip == [usage_count |-> 0, call |-> NoCall]

\* the three collections of the engine as __init__ leaves them
NewEngine ==
    [learning_buffer |-> << >>, improvement_queue |-> << >>, active_experiments |-> {}]

Idle ==
    /\ new_outcomes = << >>
    /\ patterns = << >>
    /\ recommendations = << >>
    /\ ei = 1
    /\ log = << >>
    /\ gen_invoked = << >>
    /\ gen_emitted = << >>
    /\ exec_log = << >>
    /\ model_updates = << >>
    /\ conf_args = << >>
    /\ conf_rets = << >>
    /\ fetched = NoFetch
    /\ engine = NewEngine
    /\ metrics = NewMetrics
    /\ clip = NewClip

-----------------------------------------------------------------------------
(* The loop: main() constructs the engine and awaits continuous_learning_loop *)

Init ==
    /\ config \in Configs
    /\ pc = "collect"
    /\ cycle = 1
    /\ Idle

Next ==
    \/ Collect(LoopRows, MaxRows)
    \/ Analyze(LoopPayloadTuples)
    \/ Generate
    \/ ExecuteStep
    \/ ExecuteReturn
    \/ Update
    \/ HealthCheck
    \/ Sleep
    \/ RecoverySleep

Spec == Init /\ [][Next]_vars

\* Weak fairness of Generate, with its enabling condition written out: the
\* step can be taken exactly when the loop is at the generate stage, since
\* generate_improvements is defined on every pattern list.
GenerateFair == []<>(pc # "generate") \/ []<><<Generate>>_vars

\* The loop on an event loop that resumes the coroutine whenever the call it
\* awaits has returned or raised, every awaited call doing one or the other:
\* a step of the loop that can be taken is eventually taken.
SpecLive ==
    /\ Init /\ [][Next]_vars
    /\ WF_vars(Collect(LoopRows, MaxRows))
    /\ WF_vars(Analyze(LoopPayloadTuples))
    /\ GenerateFair
    /\ WF_vars(ExecuteStep)
    /\ WF_vars(ExecuteReturn)
    /\ WF_vars(Update)
    /\ WF_vars(HealthCheck)
    /\ WF_vars(Sleep)
    /\ WF_vars(RecoverySleep)


-----------------------------------------------------------------------------
(* calculate_confidence alone, on two payloads *)

ConfPayloads ==
    {ListPayload(n) : n \in 0..MaxSample}
    \cup {Payload("mapping", n, FALSE, << >>) : n \in {0, 1, 2, MaxSample}}
    \cup {Payload("scalar", n, FALSE, << >>) : n \in {0, 1}}
    \cup {Payload("none", 0, FALSE, << >>)}

InitConf ==
    /\ config = DefaultConfig
    /\ pc = "idle"
    /\ cycle = 1
    /\ new_outcomes = << >>
    /\ patterns = << >>
    /\ recommendations = << >>
    /\ ei = 1
    /\ log = << >>
    /\ gen_invoked = << >>
    /\ gen_emitted = << >>
    /\ exec_log = << >>
    /\ model_updates = << >>
    /\ conf_args \in [1..2 -> ConfPayloads]
    /\ conf_rets = << >>
    /\ fetched = NoFetch
    /\ engine = NewEngine
    /\ metrics = NewMetrics
    /\ clip = NewClip

NextConf == CalculateConfidence

SpecConf == InitConf /\ [][NextConf]_vars

-----------------------------------------------------------------------------
(* generate_improvements alone, on pattern lists of three families *)

\* Labels a proposal may carry: the three of the scale and one outside it.
Labels == Levels \cup {"unknown"}

\* Patterns of every type (and one type the code has no branch for), with
\* confidences around the gate; each generator returns one proposal or raises.
GatePatterns ==
    {Pattern(t, Payload("list", 1, raises, << SafeProposal >>), c) :
        t \in PatternTypes \cup {"custom"}, c \in {50, 69, 70, 100},
        raises \in BOOLEAN}

\* n proposals told apart by their component (their number in encounter
\* order), with the efforts and impacts el gives them.
RankedInput(el) ==
    [k \in 1..Len(el) |-> Proposal("performance", k, el[k][1], el[k][2], "low")]

\* Admitted patterns whose generators return, between them, the list out:
\* all of it by one pattern, or split after its first proposal.
OnePattern(out) ==
    << Pattern("failure_modes", Payload("list", 100, FALSE, out), 100) >>

SplitAfterFirst(out) ==
    << Pattern("success_factors", Payload("list", 70, FALSE, SubSeq(out, 1, 1)), 70),
       Pattern("temporal_patterns", ListPayload(1), 1),
       Pattern("agent_performance",
               Payload("list", 100, FALSE, SubSeq(out, 2, Len(out))), 100) >>

\* An engine constructed with a threshold below or above the shipped one.
GateConfigs ==
    {[learning_interval |-> Num(300), confidence_threshold |-> Num(ct)] : ct \in {50, 90}}

\* Patterns with confidences around those thresholds; each generator returns
\* one proposal.
TunedPatterns ==
    {Pattern("success_factors", Payload("list", c, FALSE, << SafeProposal >>), c) :
        c \in {49, 50, 60, 80, 89, 90}}

InitGen ==
    /\ pc = "generate"
    /\ cycle = 1
    /\ new_outcomes = << >>
    /\ \/ /\ config = DefaultConfig
          /\ \/ \E n \in 0..MaxPatterns : patterns \in [1..n -> GatePatterns]
             \/ \E n \in 0..MaxEmit : \E el \in [1..n -> Labels \X Labels] :
                   \/ patterns = OnePattern(RankedInput(el))
                   \/ n > 0 /\ patterns = SplitAfterFirst(RankedInput(el))
       \/ /\ config \in GateConfigs
          /\ \E n \in 0..MaxPatterns : patterns \in [1..n -> TunedPatterns]
    /\ recommendations = << >>
    /\ ei = 1
    /\ log = << >>
    /\ gen_invoked = << >>
    /\ gen_emitted = << >>
    /\ exec_log = << >>
    /\ model_updates = << >>
    /\ conf_args = << >>
    /\ conf_rets = << >>
    /\ fetched = NoFetch
    /\ engine = NewEngine
    /\ metrics = NewMetrics
    /\ clip = NewClip

NextGen == Generate

SpecGen == InitGen /\ [][NextGen]_vars

-----------------------------------------------------------------------------
(* execute_safe_improvements alone, on proposal lists of three families *)

\* every combination of risk, effort and impact
GradedProposals ==
    {Proposal("performance", "c", e, i, r) : e \in Levels, i \in Levels, r \in Levels}

\* every category, proposals that pass the test and one that does not
CategoryProposals ==
    {Proposal(t, "c", "low", i, "low") : t \in ImprovementTypes, i \in {"low", "high"}}

\* SELF_IMPROVEMENT_CONFIG with its four switches set every way
SwitchConfigs ==
    {[learning_interval |-> Num(300), confidence_threshold |-> Num(70),
      auto_improvement_enabled |-> a, safety_checks_enabled |-> s,
      rollback_on_failure |-> r, max_concurrent_experiments |-> m] :
        a \in BOOLEAN, s \in BOOLEAN, r \in BOOLEAN, m \in {0, 5}}

\* an eligible proposal, one that is not, and an eligible one of a category
\* without implementer
SwitchProposals == {SafeProposal, ManualProposal, UnroutedProposal}

InitExec ==
    /\ pc = "execute"
    /\ cycle = 1
    /\ new_outcomes = << >>
    /\ patterns = << >>
    /\ \/ /\ config = DefaultConfig
          /\ \/ \E n \in 0..MaxGraded : recommendations \in [1..n -> GradedProposals]
             \/ \E n \in 0..MaxProposals :
                   recommendations \in [1..n -> CategoryProposals]
       \/ /\ config \in SwitchConfigs
          /\ \E n \in 0..MaxGraded : recommendations \in [1..n -> SwitchProposals]
    /\ ei = 1
    /\ log = << >>
    /\ gen_invoked = << >>
    /\ gen_emitted = << >>
    /\ exec_log = << >>
    /\ model_updates = << >>
    /\ conf_args = << >>
    /\ conf_rets = << >>
    /\ fetched = NoFetch
    /\ engine = NewEngine
    /\ metrics = NewMetrics
    /\ clip = NewClip

NextExec == ExecuteStep \/ ExecuteReturn

SpecExec == InitExec /\ [][NextExec]_vars


-----------------------------------------------------------------------------
(* Properties of execute_safe_improvements *)

\* the proposals of the list for which exec_log holds a call of op
Called(op) ==
    {exec_log[j].index : j \in {i \in 1..Len(exec_log) : exec_log[i].op = op}}

\* how often exec_log holds a call of op for proposal k
TimesCalled(op, k) ==
    Cardinality({j \in 1..Len(exec_log) : exec_log[j] = Event(op, k)})

\* the eligibility test as the specification words it
SpecEligible(x) ==
    /\ x.risk_level = "low"
    /\ x.implementation_effort = "low"
    /\ x.expected_impact = "medium" \/ x.expected_impact = "high"

\* C1: at every point of a call of execute_safe_improvements, the proposals
\* handed to implement_improvement so far are exactly the proposals passed so
\* far with risk low, effort low and impact medium or high, each handed over
\* once; a proposal with risk low, effort low and impact low is never handed
\* over.
C1_AttemptedIffEligible ==
    pc \in {"execute", "update"} =>
        /\ Called("implement_improvement")
             = {k \in 1..(ei - 1) : SpecEligible(recommendations[k])}
        /\ \A k \in 1..(ei - 1) : TimesCalled("implement_improvement", k) <= 1
        /\ \A k \in 1..Len(recommendations) :
              ( /\ recommendations[k].risk_level = "low"
                /\ recommendations[k].implementation_effort = "low"
                /\ recommendations[k].expected_impact = "low" )
              => k \notin Called("implement_improvement")

\* The call returned; of three proposals it attempted the first and the
\* third and left out the one with risk low, effort low and impact low.
C1_Witness ==
    /\ pc = "update"
    /\ Len(recommendations) = 3
    /\ recommendations[2].risk_level = "low"
    /\ recommendations[2].implementation_effort = "low"
    /\ recommendations[2].expected_impact = "low"
    /\ Called("implement_improvement") = {1, 3}

\* C2: a failure of implement_improvement for proposal N is caught inside
\* execute_safe_improvements: the call never raises, and every eligible
\* proposal behind N that the for loop has passed was attempted; when the call
\* has returned, that is every eligible proposal behind N.
C2_FailureIsolated ==
    /\ pc # "recovery_sleep"
    /\ \A j \in 1..Len(log) : ~(log[j].stage = "execute" /\ log[j].result = "raised")
    /\ \A n \in Called("log_error") :
          /\ ei > n
          /\ \A m \in (n + 1)..Len(recommendations) :
                (SpecEligible(recommendations[m]) /\ (m < ei \/ pc = "update"))
                => m \in Called("implement_improvement")

\* Proposal 2 of 3 failed in its implementer; 1 and 3 were attempted and the
\* call returned.
C2_Witness ==
    /\ pc = "update"
    /\ Len(recommendations) = 3
    /\ Called("log_error") = {2}
    /\ 2 \notin Called("record_improvement")
    /\ Called("implement_improvement") = {1, 2, 3}
    /\ Called("log_info") = {1, 3}


-----------------------------------------------------------------------------
(* Properties of continuous_learning_loop *)

\* the stages in the order the specification gives
SpecStageOrder ==
    << "collect", "analyze", "generate", "execute", "update", "health_check" >>

IsStageEntry(e) == \E k \in 1..Len(SpecStageOrder) : SpecStageOrder[k] = e.stage

\* the entries of log made by the stages of cycle c, in order
RECURSIVE StageEntriesOf(_, _)
StageEntriesOf(l, c) ==
    IF l = << >> THEN << >>
    ELSE LET rest == StageEntriesOf(SubSeq(l, 1, Len(l) - 1), c)
             e == l[Len(l)]
         IN  IF e.cycle = c /\ IsStageEntry(e) THEN Append(rest, e) ELSE rest

\* C3: a stage that raised does not end the loop: what follows it is the
\* recovery sleep of one minute, never the sleep of the learning interval,
\* and what follows that sleep is the collect stage of the next cycle.
C3_RecoveryThenNextCycle ==
    /\ pc # "terminated"
    /\ \A j \in 1..Len(log) :
          (IsStageEntry(log[j]) /\ log[j].result = "raised") =>
             IF j = Len(log)
             THEN pc = "recovery_sleep" /\ cycle = log[j].cycle
             ELSE /\ log[j + 1] = Entry(log[j].cycle, "recovery_sleep", "returned", 60)
                  /\ IF j + 1 = Len(log)
                     THEN pc = "collect" /\ cycle = log[j].cycle + 1
                     ELSE /\ log[j + 2].stage = "collect"
                          /\ log[j + 2].cycle = log[j].cycle + 1

\* The update stage of cycle 1 raised under a learning interval of 300 s; the
\* loop slept 60 s and the collect stage of cycle 2 ran.
C3_Witness ==
    /\ Len(log) >= 7
    /\ Get(config, "learning_interval", Num(300)) = Num(300)
    /\ log[5] = Entry(1, "update", "raised", 0)
    /\ log[6].stage = "recovery_sleep"
    /\ log[7].stage = "collect"
    /\ log[7].cycle = 2

\* C4: once a stage of a cycle raised, no later stage of that cycle runs:
\* the loop is in no stage while it is still in that cycle, the stage that
\* raised is the last stage entry of its cycle, and the next stage entry
\* of all is that of the collect stage of the following cycle.
C4_RestOfCycleAbandoned ==
    \A j \in 1..Len(log) :
       (IsStageEntry(log[j]) /\ log[j].result = "raised") =>
          /\ cycle = log[j].cycle => pc = "recovery_sleep"
          /\ \A m \in (j + 1)..Len(log) :
                IsStageEntry(log[m]) =>
                   /\ log[m].cycle > log[j].cycle
                   /\ (\A i \in (j + 1)..(m - 1) : ~IsStageEntry(log[i]))
                      => (log[m].stage = "collect" /\ log[m].cycle = log[j].cycle + 1)

\* The analyze stage of cycle 1 raised; the next stage that ran is the
\* collect stage of cycle 2, which then went on to its analyze stage.
C4_Witness ==
    /\ Len(log) >= 5
    /\ log[2] = Entry(1, "analyze", "raised", 0)
    /\ log[4] = Entry(2, "collect", "returned", 0)
    /\ log[5].stage = "analyze"
    /\ log[5].cycle = 2

\* C5: in every cycle the stages run in the order collect, analyze, generate,
\* execute, update, health check: the stage entries of a cycle are an initial
\* part of that order, each stage but the last of them returned, and a stage
\* the loop is in or about to call is the one after the last that returned.
C5_StagesInOrder ==
    \A c \in 1..cycle :
       LET es == StageEntriesOf(log, c) IN
       /\ Len(es) <= Len(SpecStageOrder)
       /\ \A k \in 1..Len(es) :
             /\ es[k].stage = SpecStageOrder[k]
             /\ k < Len(es) => es[k].result = "returned"
       /\ (c = cycle /\ \E k \in 1..Len(SpecStageOrder) : SpecStageOrder[k] = pc)
          => /\ Len(es) < Len(SpecStageOrder)
             /\ pc = SpecStageOrder[Len(es) + 1]
             /\ \A k \in 1..Len(es) : es[k].result = "returned"

\* Cycle 1 ran its six stages, each returning, attempted a proposal in its
\* execute stage, and slept.
C5_Witness ==
    /\ Len(log) >= 7
    /\ \A k \in 1..6 : log[k] = Entry(1, SpecStageOrder[k], "returned", 0)
    /\ log[7].stage = "sleep"
    /\ exec_log # << >>


-----------------------------------------------------------------------------
(* Properties of generate_improvements *)

\* the call of generate_improvements has ended
Generated == pc \in {"execute", "recovery_sleep"}

\* the threshold in force: confidence_threshold as shipped, 0.7
ShippedThreshold == DefaultConfig["confidence_threshold"].v

\* C6: generate_improvements invokes no generator for a pattern whose
\* confidence is below the threshold 0.7, and when every confidence of the
\* list is below it the call returns the empty sequence.
C6_LowConfidenceSkipped ==
    Generated =>
       /\ \A j \in 1..Len(gen_invoked) :
             patterns[gen_invoked[j]].confidence >= ShippedThreshold
       /\ (\A k \in 1..Len(patterns) : patterns[k].confidence < ShippedThreshold)
          => (pc = "execute" /\ recommendations = << >> /\ gen_emitted = << >>)

\* Of two patterns the one of confidence 0.69 was skipped and the one of
\* confidence 0.70 had its generator invoked, which returned a proposal.
C6_Witness ==
    /\ pc = "execute"
    /\ Len(patterns) = 2
    /\ patterns[1].confidence = 69
    /\ patterns[1].type \in PatternTypes
    /\ ~patterns[1].data.gen_raises
    /\ patterns[2].confidence = 70
    /\ gen_invoked = << 2 >>
    /\ Len(recommendations) = 1

\* the scores as the specification tabulates them, in tenths
SpecImpactScore(l) == CASE l = "low" -> 3 [] l = "medium" -> 6 [] l = "high" -> 10

SpecFeasibilityScore(l) == CASE l = "low" -> 10 [] l = "medium" -> 6 [] l = "high" -> 3

SpecScore(x) ==
    SpecImpactScore(x.expected_impact) * SpecFeasibilityScore(x.implementation_effort)

OnScale(x) == x.expected_impact \in Levels /\ x.implementation_effort \in Levels

Occurrences(s, x) == Cardinality({k \in 1..Len(s) : s[k] = x})

\* what the generators of the admitted patterns of ps return, in pattern order
RECURSIVE SpecEmitted(_)
SpecEmitted(ps) ==
    IF ps = << >> THEN << >>
    ELSE LET p == ps[Len(ps)] IN
         SpecEmitted(SubSeq(ps, 1, Len(ps) - 1))
         \o (IF p.confidence >= ShippedThreshold /\ p.type \in PatternTypes
             THEN p.data.gen_out ELSE << >>)

\* C7: the sequence generate_improvements returns holds the proposals its
\* generators emitted, each as often as emitted, and along it the product of
\* impact score and feasibility score never increases; a proposal of high
\* impact and low effort stands before every one of medium impact and medium
\* effort. (Proposals with a label outside the scale have no score in the
\* specification's tables and are left out of the comparison.)
C7_RankedPermutation ==
    pc = "execute" =>
       LET emitted == SpecEmitted(patterns) IN
       /\ Len(recommendations) = Len(emitted)
       /\ \A k \in 1..Len(emitted) :
             Occurrences(recommendations, emitted[k]) = Occurrences(emitted, emitted[k])
       /\ \A i, j \in 1..Len(recommendations) :
             (i < j /\ OnScale(recommendations[i]) /\ OnScale(recommendations[j]))
             => SpecScore(recommendations[i]) >= SpecScore(recommendations[j])
       /\ \A i, j \in 1..Len(recommendations) :
             ( /\ recommendations[i].expected_impact = "high"
               /\ recommendations[i].implementation_effort = "low"
               /\ recommendations[j].expected_impact = "medium"
               /\ recommendations[j].implementation_effort = "medium" )
             => i < j

\* the places of the returned sequence whose proposal carries an impact or
\* an effort outside the scale
OffScalePlaces == {k \in 1..Len(recommendations) : ~OnScale(recommendations[k])}

\* C29: a proposal whose impact or effort is not low, medium or high has
\* ranking score 0.0, while every proposal with both labels on the scale has
\* at least 0.09; in the sequence generate_improvements returns it stands
\* after every proposal with both labels on the scale, and it is returned:
\* every emitted proposal is in the output as often as it was emitted.
C29_OffScaleRankedLast ==
    pc = "execute" =>
       /\ \A k \in 1..Len(recommendations) :
             IF OnScale(recommendations[k])
             THEN SortKey(recommendations[k]) >= 900
             ELSE SortKey(recommendations[k]) = 0
       /\ \A i \in OffScalePlaces :
             \A j \in 1..Len(recommendations) : OnScale(recommendations[j]) => j < i
       /\ \A k \in 1..Len(gen_emitted) :
             Occurrences(recommendations, gen_emitted[k])
                = Occurrences(gen_emitted, gen_emitted[k])

\* A proposal of high impact and unknown effort and one of unknown impact
\* and low effort were emitted before one of low impact and high effort
\* (score 0.09); the returned sequence has all three, the last one first.
C29_Witness ==
    /\ pc = "execute"
    /\ Len(gen_emitted) = 3
    /\ gen_emitted[1].expected_impact = "high"
    /\ gen_emitted[1].implementation_effort = "unknown"
    /\ gen_emitted[2].expected_impact = "unknown"
    /\ gen_emitted[2].implementation_effort = "low"
    /\ gen_emitted[3].expected_impact = "low"
    /\ gen_emitted[3].implementation_effort = "high"
    /\ recommendations = << gen_emitted[3], gen_emitted[1], gen_emitted[2] >>

\* A proposal of medium impact and effort was emitted before one of high
\* impact and low effort, and the returned sequence has them the other way.
C7_Witness ==
    /\ pc = "execute"
    /\ Len(gen_emitted) = 3
    /\ gen_emitted[1].expected_impact = "medium"
    /\ gen_emitted[1].implementation_effort = "medium"
    /\ gen_emitted[2].expected_impact = "low"
    /\ gen_emitted[2].implementation_effort = "high"
    /\ gen_emitted[3].expected_impact = "high"
    /\ gen_emitted[3].implementation_effort = "low"
    /\ recommendations = << gen_emitted[3], gen_emitted[1], gen_emitted[2] >>

\* the place of proposal x in the encounter order: pattern order, then the
\* order in which the generator returned its proposals
EmittedAt(x) ==
    LET emitted == SpecEmitted(patterns)
    IN  CHOOSE k \in 1..Len(emitted) : emitted[k] = x

\* C8: two different proposals of equal ranking score stand in the returned
\* sequence in the order in which they were emitted; with C7 this fixes the
\* place of every proposal, so the output is determined by the emitted list.
C8_TiesKeepEncounterOrder ==
    pc = "execute" =>
       \A i, j \in 1..Len(recommendations) :
          ( /\ i < j
            /\ recommendations[i] # recommendations[j]
            /\ OnScale(recommendations[i]) /\ OnScale(recommendations[j])
            /\ SpecScore(recommendations[i]) = SpecScore(recommendations[j]) )
          => EmittedAt(recommendations[i]) < EmittedAt(recommendations[j])

\* Two proposals of score 0.6, emitted by two patterns and before one of score
\* 1.0, are returned behind it in the order of their emission.
C8_Witness ==
    /\ pc = "execute"
    /\ Len(patterns) = 3
    /\ Len(gen_emitted) = 3
    /\ gen_emitted[1].expected_impact = "high"
    /\ gen_emitted[1].implementation_effort = "medium"
    /\ gen_emitted[2].expected_impact = "medium"
    /\ gen_emitted[2].implementation_effort = "low"
    /\ gen_emitted[3].expected_impact = "high"
    /\ gen_emitted[3].implementation_effort = "low"
    /\ recommendations = << gen_emitted[3], gen_emitted[1], gen_emitted[2] >>


\* the threshold the engine was constructed with
ConfiguredThreshold == config["confidence_threshold"].v

\* C16: with confidence_threshold set to t, generate_improvements invokes the
\* generator of a pattern (of a type it knows, no generator raising) exactly
\* when the confidence of the pattern is at least t.
C16_GateUsesConfiguredThreshold ==
    (pc = "execute" /\ \A k \in 1..Len(patterns) : patterns[k].type \in PatternTypes)
    => \A k \in 1..Len(patterns) :
          (\E j \in 1..Len(gen_invoked) : gen_invoked[j] = k)
             <=> patterns[k].confidence >= ConfiguredThreshold

-----------------------------------------------------------------------------
(* Properties of calculate_confidence (confidences in hundredths) *)

Applied == conf_rets # << >>

\* C9: for list payloads calculate_confidence never decreases when the list
\* grows, is 1.0 exactly for the lists of at least 100 elements, and for every
\* payload lies between 0 and 1.
C9_MonotoneSaturating ==
    Applied =>
       /\ \A k \in 1..Len(conf_args) : conf_rets[k] >= 0 /\ conf_rets[k] <= 100
       /\ \A k \in 1..Len(conf_args) :
             conf_args[k].shape = "list"
             => (conf_rets[k] = 100 <=> conf_args[k].size >= 100)
       /\ \A k, l \in 1..Len(conf_args) :
             ( /\ conf_args[k].shape = "list" /\ conf_args[l].shape = "list"
               /\ conf_args[k].size <= conf_args[l].size )
             => conf_rets[k] <= conf_rets[l]

\* Lists of 99 and of 101 elements: 0.99 and 1.0.
C9_Witness ==
    /\ Applied
    /\ conf_args[1] = ListPayload(99)
    /\ conf_args[2] = ListPayload(101)
    /\ conf_rets = << 99, 100 >>

\* the sample size as the specification defines it: a list's length, 1 for a
\* scalar
SpecSampleSize(data) == IF data.shape = "list" THEN data.size ELSE 1

\* an empty payload: an empty list, an empty mapping, None
SpecEmpty(data) ==
    \/ data.shape = "none"
    \/ data.shape \in {"list", "mapping"} /\ data.size = 0

\* C10: calculate_confidence is min(1.0, sample_size / 100.0), with the list's
\* length as sample size of a list and 1 as that of a scalar, and 0.0 for an
\* empty payload.
C10_ConfidenceFormula ==
    Applied =>
       \A k \in 1..Len(conf_args) :
          /\ SpecEmpty(conf_args[k]) => conf_rets[k] = 0
          /\ (~SpecEmpty(conf_args[k]) /\ conf_args[k].shape \in {"list", "scalar"})
             => conf_rets[k] = Min(100, SpecSampleSize(conf_args[k]))


-----------------------------------------------------------------------------
(* collect_learning_outcomes alone, on batches of rows *)

\* rows with a raw impact_score below, on the ends of, inside and above
\* [0, 1], a row whose score is NULL and a row without the column
CollectRows ==
    {Row(Num(v)) : v \in {-20, 0, 50, 100, 140}} \cup {Row(Null), RowWithoutScore}

InitCollect ==
    /\ config = DefaultConfig
    /\ pc = "collect"
    /\ cycle = 1
    /\ Idle

NextCollect == Collect(CollectRows, MaxFetched)

SpecCollect == InitCollect /\ [][NextCollect]_vars

-----------------------------------------------------------------------------
(* Properties of collect_learning_outcomes *)

\* the call of this cycle has ended
Collected == pc # "collect"

\* row k of the batch carries a number in its impact_score column
WellFormed(row) == "impact_score" \in DOMAIN row /\ row["impact_score"].t = "number"

\* the store answered every query of the call
StoreAnswered == ~fetched.fetch_raises /\ fetched.metrics_raise \notin 1..Len(fetched.rows)

\* C11: a batch whose rows all carry a numeric impact_score, read from a store
\* that answers, is returned whole, one outcome per row in order, and each
\* success_score lies in [0, 1]: 1.0 for a raw value above 1, 0.0 for a raw
\* value below 0, the raw value itself otherwise. No such row is rejected.
C11_ScoreClamped ==
    (/\ Collected
     /\ StoreAnswered
     /\ \A k \in 1..Len(fetched.rows) : WellFormed(fetched.rows[k]))
    => /\ pc = "analyze"
       /\ Len(new_outcomes) = Len(fetched.rows)
       /\ \A k \in 1..Len(new_outcomes) :
             LET raw == fetched.rows[k]["impact_score"].v
                 stored == new_outcomes[k].success_score IN
             /\ stored \in 0..100
             /\ raw > 100 => stored = 100
             /\ raw < 0 => stored = 0
             /\ raw \in 0..100 => stored = raw

C11_Witness ==
    /\ pc = "analyze"
    /\ Len(new_outcomes) = 2
    /\ fetched.rows[1]["impact_score"].v = 140
    /\ fetched.rows[2]["impact_score"].v = -20

\* C17: when a batch read from an answering store holds a malformed row (one
\* without the impact_score column or with a NULL in it) beside a well-formed
\* one, collect_learning_outcomes returns, and what it returns is one outcome
\* for each well-formed row, in their order.
C17_MalformedRowSkipped ==
    (/\ Collected
     /\ StoreAnswered
     /\ \E k \in 1..Len(fetched.rows) : ~WellFormed(fetched.rows[k])
     /\ \E k \in 1..Len(fetched.rows) : WellFormed(fetched.rows[k]))
    => /\ pc = "analyze"
       /\ LET kept == SelectSeq(fetched.rows, WellFormed) IN
          /\ Len(new_outcomes) = Len(kept)
          /\ \A k \in 1..Len(kept) :
                new_outcomes[k].success_score
                   = Max(0, Min(100, kept[k]["impact_score"].v))

-----------------------------------------------------------------------------
(* Properties of a cycle as a whole *)

\* the entry of the latest collect stage in the log (0: none yet)
LastCollect ==
    LET js == {j \in 1..Len(log) : log[j].stage = "collect"} IN
    IF js = {} THEN 0 ELSE CHOOSE j \in js : \A i \in js : i <= j

\* the entries the cycle of the latest collect stage has made after it
SinceCollect == (LastCollect + 1)..Len(log)

\* stage has ended in the cycle of the latest collect stage
Ended(stage) == \E m \in SinceCollect : log[m].stage = stage

\* the latest collect stage returned an empty batch
EmptyBatch ==
    /\ LastCollect > 0
    /\ log[LastCollect].result = "returned"
    /\ new_outcomes = << >>

\* C12: in a cycle whose batch is empty, the analyze stage returns the empty
\* pattern sequence, the generate stage returns no proposal and invokes no
\* generator, the execute stage attempts nothing, the update stage invokes no
\* model update, none of these four stages raises, and a health check that
\* returns is followed by the sleep of the learning interval.
C12_EmptyBatchIsNoOp ==
    EmptyBatch =>
       /\ \A m \in SinceCollect :
             log[m].stage \in {"analyze", "generate", "execute", "update"}
                => log[m].result = "returned"
       /\ Ended("analyze") => patterns = << >>
       /\ Ended("generate") =>
             /\ recommendations = << >>
             /\ gen_invoked = << >>
             /\ gen_emitted = << >>
             /\ exec_log = << >>
       /\ Ended("update") => model_updates = << >>
       /\ \A m \in SinceCollect :
             (log[m].stage = "health_check" /\ log[m].result = "returned") =>
                IF m = Len(log) THEN pc = "sleep"
                ELSE /\ log[m + 1].stage = "sleep"
                     /\ LET delay == Get(config, "learning_interval", Num(300)) IN
                        delay.t = "number" =>
                           log[m + 1] = Entry(log[m].cycle, "sleep", "returned", delay.v)

\* Cycle 1 collected an empty batch, ran its six stages and slept the
\* learning interval; the loop is about to start cycle 2.
C12_Witness ==
    /\ Len(log) = 7
    /\ EmptyBatch
    /\ log[5] = Entry(1, "update", "returned", 0)
    /\ log[6] = Entry(1, "health_check", "returned", 0)
    /\ log[7] = Entry(1, "sleep", "returned", 30)
    /\ pc = "collect"

-----------------------------------------------------------------------------
(* Properties of implement_improvement *)

\* C13: every proposal execute_safe_improvements attempted, whether its
\* category implementer returned or raised, has reached record_improvement.
C13_EveryAttemptRecorded ==
    \A k \in Called("implement_improvement") : k \in Called("record_improvement")

\* the categories the specification gives an implementer
SpecAutonomous == {"performance", "efficiency", "reliability", "scalability"}

\* C15: of the proposals execute_safe_improvements has gone through, one of
\* category accuracy or cost has had no category implementer dispatched,
\* eligible or not; an implementer has been dispatched only for proposals of
\* the categories performance, efficiency, reliability and scalability, and
\* for each of those that passes the eligibility test.
C15_NoImplementerForAccuracyOrCost ==
    \A k \in 1..Min(ei - 1, Len(recommendations)) :
       LET x == recommendations[k] IN
       /\ x.optimization_type \in {"accuracy", "cost"} => k \notin Called("implementer")
       /\ k \in Called("implementer") => x.optimization_type \in SpecAutonomous
       /\ (SpecEligible(x) /\ x.optimization_type \in SpecAutonomous)
          => k \in Called("implementer")

\* An eligible cost proposal and an eligible scalability proposal went through
\* the test: implement_improvement was called for both, an implementer only
\* for the second.
C15_Witness ==
    /\ Len(recommendations) = 2
    /\ ei = 3
    /\ recommendations[1].optimization_type = "cost"
    /\ recommendations[2].optimization_type = "scalability"
    /\ Called("implement_improvement") = {1, 2}
    /\ Called("implementer") = {2}


\* the implementer dispatched for proposal k raised: the error was logged
\* directly after its call
DispatchRaised(k) ==
    \E i \in 1..(Len(exec_log) - 1) :
       exec_log[i] = Event("implementer", k) /\ exec_log[i + 1] = Event("log_error", k)

\* C27: of the proposals execute_safe_improvements has gone through,
\* record_improvement has been called exactly for the eligible ones whose
\* dispatch did not raise. An eligible proposal of category accuracy or cost,
\* for which no implementer runs, is among them, and unless
\* record_improvement itself raised it is logged as implemented.
C27_RecordedUnlessDispatchRaised ==
    \A k \in 1..Min(ei - 1, Len(recommendations)) :
       LET x == recommendations[k] IN
       /\ k \in Called("record_improvement") <=> (SpecEligible(x) /\ ~DispatchRaised(k))
       /\ (SpecEligible(x) /\ x.optimization_type \in {"accuracy", "cost"}) =>
             /\ k \notin Called("implementer")
             /\ k \in Called("record_improvement")
             /\ k \in Called("log_info") \/ k \in Called("log_error")
             /\ k \in Called("log_error") =>
                   \E i \in 1..(Len(exec_log) - 1) :
                      /\ exec_log[i] = Event("record_improvement", k)
                      /\ exec_log[i + 1] = Event("log_error", k)

\* An eligible accuracy proposal was recorded and logged as implemented with
\* no implementer run, and an eligible efficiency proposal whose implementer
\* raised was not recorded.
C27_Witness ==
    /\ Len(recommendations) = 2
    /\ ei = 3
    /\ recommendations[1].optimization_type = "accuracy"
    /\ recommendations[2].optimization_type = "efficiency"
    /\ Called("implementer") = {2}
    /\ Called("record_improvement") = {1}
    /\ Called("log_info") = {1}
    /\ DispatchRaised(2)

\* the proposals attempted, in the order of their attempts
Attempted ==
    LET starts == SelectSeq(exec_log, LAMBDA e : e.op = "implement_improvement")
    IN  [i \in 1..Len(starts) |-> starts[i].index]

\* the eligible proposals among the first n of list, by their places, in
\* the order of the list: a function of the list alone
RECURSIVE SpecAttempts(_, _)
SpecAttempts(list, n) ==
    IF n = 0 THEN << >>
    ELSE IF SpecEligible(list[n]) THEN Append(SpecAttempts(list, n - 1), n)
    ELSE SpecAttempts(list, n - 1)

\* C28: what execute_safe_improvements attempts depends on the list alone:
\* whatever auto_improvement_enabled, safety_checks_enabled,
\* rollback_on_failure and max_concurrent_experiments are, the proposals
\* attempted so far are the eligible ones among those gone through, in the
\* order of the list, and nothing but attempts, their records and their log
\* lines happens (no rollback after a failure).
C28_AttemptsIgnoreSwitches ==
    /\ Attempted = SpecAttempts(recommendations, Min(ei - 1, Len(recommendations)))
    /\ \A i \in 1..Len(exec_log) :
          exec_log[i].op \in {"implement_improvement", "implementer",
                              "record_improvement", "log_info", "log_error"}

\* With auto_improvement_enabled false and rollback_on_failure true, the
\* eligible proposals of a list were attempted all the same, and the failure
\* of the first was only logged.
C28_Witness ==
    /\ "auto_improvement_enabled" \in DOMAIN config
    /\ ~config["auto_improvement_enabled"]
    /\ config["rollback_on_failure"]
    /\ Len(recommendations) = 2
    /\ Attempted = << 1, 2 >>
    /\ DispatchRaised(1)
    /\ exec_log[Len(exec_log)] = Event("log_info", 2)


-----------------------------------------------------------------------------
(* Properties of update_learning_models *)

\* the four model updates as the specification names them
SpecModelUpdates ==
    {"success_prediction", "resource_estimation", "quality_prediction",
     "agent_performance"}

\* the update stage of the cycle of the latest collect stage has ended, on a
\* batch that is not empty, and got as far as its first model update
UpdatedModels ==
    /\ LastCollect > 0
    /\ log[LastCollect].result = "returned"
    /\ new_outcomes # << >>
    /\ Ended("update")
    /\ model_updates # << >>

\* C14: once update_learning_models, on a batch that is not empty, has begun
\* its model updates, each of the four is invoked, whether or not one of
\* them raised.
C14_UpdatesIndependent ==
    UpdatedModels =>
       \A u \in SpecModelUpdates : \E j \in 1..Len(model_updates) : model_updates[j] = u

\* an entry of a sleep that elapsed, normal or of the handler
IsSleepEntry(e) == e.stage \in {"sleep", "recovery_sleep"} /\ e.result = "returned"

\* C19: the loop runs one cycle at a time and one stage at a time. The loop
\* is at one position; the cycles of the log never decrease; no stage ends
\* twice in a cycle; and the collect stage of a cycle after the first starts
\* only when the last thing that happened is the elapsed sleep of the cycle
\* before it, after which that cycle makes no further entry.
C19_OneCycleAtATime ==
    /\ pc \in {"collect", "analyze", "generate", "execute", "update",
               "health_check", "sleep", "recovery_sleep"}
    /\ \A j \in 1..Len(log) : log[j].cycle <= cycle
    /\ \A i, j \in 1..Len(log) :
          /\ i < j => log[i].cycle <= log[j].cycle
          /\ (i # j /\ log[i].cycle = log[j].cycle) => log[i].stage # log[j].stage
    /\ \A j \in 1..Len(log) :
          log[j].stage = "collect" =>
             IF j = 1 THEN log[j].cycle = 1
             ELSE /\ IsSleepEntry(log[j - 1])
                  /\ log[j - 1].cycle = log[j].cycle - 1
    /\ pc = "collect" =>
          IF log = << >> THEN cycle = 1
          ELSE /\ IsSleepEntry(log[Len(log)])
               /\ log[Len(log)].cycle = cycle - 1

\* Cycle 1 ran to its sleep and cycle 2 got as far as its analyze stage;
\* the six stage entries and the sleep of cycle 1 all come before the collect
\* entry of cycle 2.
C19_Witness ==
    /\ Len(log) = 9
    /\ \A k \in 1..7 : log[k].cycle = 1
    /\ log[7].stage = "sleep"
    /\ log[8] = Entry(2, "collect", "returned", 0)
    /\ log[9].stage = "analyze"
    /\ pc = "generate"

-----------------------------------------------------------------------------
(* Properties of the configuration *)

\* a configuration the specification accepts: the learning interval, where
\* given, is a positive number, and the confidence threshold is a number
\* between 0 and 1
SpecValidConfig ==
    /\ LET li == Get(config, "learning_interval", Num(300)) IN
       li.t = "number" /\ li.v > 0
    /\ "confidence_threshold" \in DOMAIN config
    /\ config["confidence_threshold"].t = "number"
    /\ config["confidence_threshold"].v \in 0..100

\* C18: under a configuration that is not valid no stage of the loop has ever
\* run.
C18_InvalidConfigRejected == ~SpecValidConfig => log = << >>

-----------------------------------------------------------------------------
(* Progress of the loop *)

\* C20: the loop never ends. Whatever its stages do, return or raise, the
\* loop is never at a position outside its statements, from every position
\* it comes to the collect stage again, and a collect stage it has come to
\* (of a cycle that is explored) is entered.
C20_LoopNeverEnds ==
    /\ [](pc # "terminated")
    /\ (pc # "collect") ~> (pc = "collect")
    /\ (pc = "collect" /\ cycle <= MaxCycles) ~> (pc # "collect")

\* The collect stage of cycle 1 raised and the health check of cycle 2
\* raised; the loop is about to start the cycle after them.
C20_Witness ==
    /\ cycle = MaxCycles + 1
    /\ pc = "collect"
    /\ log[1] = Entry(1, "collect", "raised", 0)
    /\ log[Len(log) - 1].stage = "health_check"
    /\ log[Len(log) - 1].result = "raised"

-----------------------------------------------------------------------------
(* Properties of the two sleeps *)

\* the sleep after a successful cycle, as the specification words it:
\* learning_interval, 300 seconds when not configured
SpecLearningSeconds == Get(config, "learning_interval", Num(300))

\* C21: under every numeric learning_interval, a sleep taken after a failed
\* cycle is strictly shorter than the sleep taken after a successful cycle.
C21_RecoveryShorterThanLearning ==
    SpecLearningSeconds.t = "number" =>
       \A j \in 1..Len(log) :
          log[j].stage = "recovery_sleep" => log[j].seconds < SpecLearningSeconds.v

-----------------------------------------------------------------------------
(* Properties of analyze_patterns *)

\* the five kinds of pattern, in the order the specification lists them
SpecPatternKinds ==
    << "success_factors", "failure_modes", "resource_optimization",
       "agent_performance", "temporal_patterns" >>

\* the entry of the analyze stage of the cycle of the latest collect stage
AnalyzeEntries == {m \in SinceCollect : log[m].stage = "analyze"}

\* C22: the loop never holds a partial pattern list: it holds none or five.
\* When the analyze stage of a cycle with a batch that is not empty returned,
\* it holds five patterns, of the five kinds in their fixed order, each with
\* the confidence of its own payload (min(1, n/100) for a list of n elements,
\* 0.01 for any other payload that is not empty, 0 for an empty one); when the
\* analyze stage of the first cycle raised, it holds none.
C22_FivePatternsOrNone ==
    /\ Len(patterns) \in {0, 5}
    /\ \A m \in AnalyzeEntries :
          /\ (log[m].result = "returned" /\ new_outcomes # << >>) =>
                /\ Len(patterns) = 5
                /\ \A k \in 1..5 :
                      /\ patterns[k].type = SpecPatternKinds[k]
                      /\ patterns[k].confidence =
                            (IF patterns[k].data.size = 0 THEN 0
                             ELSE IF patterns[k].data.shape = "list"
                                  THEN Min(100, patterns[k].data.size)
                                  ELSE 1)
          /\ (log[m].result = "raised" /\ log[m].cycle = 1) => patterns = << >>

\* The analyze stage of cycle 1 returned five patterns and that of cycle 2,
\* on a batch that is not empty either, raised: the loop still holds the five.
C22_Witness ==
    /\ Len(log) >= 2
    /\ log[2] = Entry(1, "analyze", "returned", 0)
    /\ cycle = 2
    /\ pc = "recovery_sleep"
    /\ log[Len(log)] = Entry(2, "analyze", "raised", 0)
    /\ new_outcomes # << >>
    /\ Len(patterns) = 5
    /\ patterns[3].data.shape = "mapping"

-----------------------------------------------------------------------------
(* Properties of the confidence of payloads that are no lists *)

\* the generate stage of the cycle of the latest collect stage has ended, so
\* gen_invoked tells of the patterns the loop now holds
GenerateEnded == \E m \in SinceCollect : log[m].stage = "generate"

\* C26: a pattern the analyze stage built from a payload that is no list, a
\* mapping of whatever size or a scalar, has confidence at most 0.01; the generate stage
\* invokes a generator only for patterns whose payload is a list of at least
\* 70 elements, so a payload that is no list never yields a proposal.
C26_OnlyLongListsPassTheGate ==
    (\E m \in SinceCollect : log[m].stage = "analyze" /\ log[m].result = "returned") =>
       /\ \A k \in 1..Len(patterns) :
             patterns[k].data.shape # "list" => patterns[k].confidence <= 1
       /\ GenerateEnded =>
             \A j \in 1..Len(gen_invoked) :
                /\ patterns[gen_invoked[j]].data.shape = "list"
                /\ patterns[gen_invoked[j]].data.size >= 70

\* The analyze stage built a pattern from a mapping of more than 100 entries
\* whose generator would return a proposal; the generate stage returned
\* proposals, none of them from that pattern.
C26_Witness ==
    /\ pc = "execute"
    /\ Len(patterns) = 5
    /\ patterns[3].data.shape = "mapping"
    /\ patterns[3].data.size > 100
    /\ patterns[3].data.gen_out # << >>
    /\ patterns[3].confidence = 1
    /\ patterns[5].data.shape = "scalar"
    /\ gen_invoked = << 1, 4 >>

-----------------------------------------------------------------------------
(* Properties across cycles *)

\* the generate stage of the cycle of the latest collect stage returned
GeneratedThisCycle ==
    \E m \in SinceCollect : log[m].stage = "generate" /\ log[m].result = "returned"

\* C24: nothing is carried from one cycle to the next. The execute stage is
\* reached only in a cycle whose own generate stage returned, so the list it
\* goes through is that cycle's; what it has attempted are proposals of that
\* list, each once and none it has not come to yet, and it starts each list
\* with nothing attempted. The engine's learning_buffer, improvement_queue
\* and active_experiments stay as the constructor left them.
C24_NothingCrossesCycles ==
    /\ pc = "execute" =>
          /\ GeneratedThisCycle
          /\ \A i \in 1..Len(exec_log) : exec_log[i].index < ei
          /\ ei = 1 => exec_log = << >>
    /\ \A i \in 1..Len(exec_log) : exec_log[i].index \in 1..Len(recommendations)
    /\ \A k \in 1..Len(recommendations) : TimesCalled("implement_improvement", k) <= 1
    /\ engine.learning_buffer = << >>
    /\ engine.improvement_queue = << >>
    /\ engine.active_experiments = {}

\* Cycle 1 generated proposals and left one of them unapplied; the generate
\* stage of cycle 2 raised, so the loop still holds the list of cycle 1, and
\* cycle 2 ended without an execute stage.
C24_Witness ==
    /\ cycle = 3
    /\ pc = "collect"
    /\ \E m \in 1..Len(log) : log[m] = Entry(2, "generate", "raised", 0)
    /\ Len(recommendations) = 3
    /\ Called("implement_improvement") = {1, 2}

-----------------------------------------------------------------------------
(* Properties of the order of application *)

\* the places of exec_log where an attempt starts
AttemptStarts == {i \in 1..Len(exec_log) : exec_log[i].op = "implement_improvement"}

\* C23: the proposals of a cycle are attempted in the order of their ranking.
\* Everything an attempt does comes before everything a later attempt does;
\* an attempt starts only after the one before it has ended, in success
\* (log_info) or in failure (log_error); and of two attempts the earlier is
\* that of the proposal ranked first, whose score is not the lower one.
C23_AppliedInRankOrder ==
    /\ \A i, j \in 1..Len(exec_log) : i < j => exec_log[i].index <= exec_log[j].index
    /\ \A i \in AttemptStarts :
          i > 1 => exec_log[i - 1].op \in {"log_info", "log_error"}
    /\ \A i, j \in AttemptStarts :
          i < j =>
             /\ exec_log[i].index < exec_log[j].index
             /\ SpecScore(recommendations[exec_log[i].index])
                   >= SpecScore(recommendations[exec_log[j].index])

\* A cycle generated three proposals; the one ranked first was attempted and
\* failed, then the one ranked second was attempted, its score lower.
C23_Witness ==
    /\ Len(recommendations) = 3
    /\ \E i, j \in AttemptStarts :
          /\ i < j
          /\ exec_log[i].index = 1
          /\ exec_log[j].index = 2
          /\ exec_log[j - 1] = Event("log_error", 1)
          /\ SpecScore(recommendations[1]) > SpecScore(recommendations[2])

-----------------------------------------------------------------------------
(* The clipboard seed utility                                              *)
(* (src/seeds/clipboard-handler/zsh_clipboard_handler.py): the counters of *)
(* ClipboardImageHandler. The average processing time, the usage patterns  *)
(* and the error list are left out; save_learning_data catches its own     *)
(* exceptions.                                                             *)

MaxEvents == 4       \* uses and errors counted, and process_clipboard calls

\* config["evolution_triggers"]["usage_frequency"]
UsageFrequency == 50

\* config["evolution_triggers"]["performance_threshold"], 0.9
PerformanceThreshold == Rate(9, 10)

\* a >= b for rates
RateAtLeast(a, b) == a.num * b.den >= b.num * a.den

\* record_error: counts the error; success_rate is not touched
record_error(m) == [m EXCEPT !.error_count = @ + 1]

\* record_processing_success: counts the use, then sets success_rate to
\* total_uses / (total_uses + error_count)
record_processing_success(m) ==
    LET uses == m.total_uses + 1 IN
    [m EXCEPT !.total_uses = uses, !.success_rate = Rate(uses, uses + m.error_count)]

\* check_evolution_triggers calls trigger_evolution, which writes a file
Triggers(m) ==
    \/ m.total_uses >= UsageFrequency
    \/ RateAtLeast(m.success_rate, PerformanceThreshold)

process_clipboard_store_silent(m, detect, store, replace, trigger_raises) ==
    IF detect = "none" THEN [metrics |-> m, ret |-> "None"]
    ELSE IF detect = "raises" \/ store = "raises" \/ replace = "fails"
         THEN [metrics |-> record_error(m), ret |-> "None"]
    ELSE LET done == record_processing_success(m) IN
         IF Triggers(done) /\ trigger_raises
         THEN [metrics |-> record_error(done), ret |-> "None"]
         ELSE [metrics |-> done, ret |-> "filepath"]

\* process_clipboard. detect: detect_clipboard_image finds an image, finds
\* none, or raises inside (caught there, recorded, None returned); store:
\* store_image returns or raises (recorded there and raised again);
\* replace: replace_clipboard_with_path returns True or fails (recorded
\* there, False returned); trigger_raises: trigger_evolution, when called,
\* raises. Gives the metrics after the call and what the call returns.
process_clipboard(m, detect, store, replace, trigger_raises) ==
    IF detect = "none" THEN [metrics |-> m, ret |-> "None"]
    ELSE IF detect = "raises" THEN [metrics |-> record_error(m), ret |-> "None"]
    ELSE IF store = "raises"
         THEN [metrics |-> record_error(record_error(m)), ret |-> "None"]
    ELSE IF replace = "fails" THEN [metrics |-> record_error(m), ret |-> "None"]
    ELSE LET done == record_processing_success(m) IN
         IF Triggers(done) /\ trigger_raises
         THEN [metrics |-> record_error(done), ret |-> "None"]
         ELSE [metrics |-> done, ret |-> "filepath"]

Counted == metrics.total_uses + metrics.error_count

\* handler.record_processing_success(filepath, processing_time)
RecordProcessingSuccess ==
    /\ pc = "clipboard"
    /\ Counted < MaxEvents
    /\ metrics' = record_processing_success(metrics)
    /\ UNCHANGED << config, pc, cycle, new_outcomes, patterns, recommendations, ei,
                    log, gen_invoked, gen_emitted, exec_log, model_updates,
                    conf_args, conf_rets, fetched, engine, clip >>

\* handler.record_error(error_type, error_message)
RecordError ==
    /\ pc = "clipboard"
    /\ Counted < MaxEvents
    /\ metrics' = record_error(metrics)
    /\ UNCHANGED << config, pc, cycle, new_outcomes, patterns, recommendations, ei,
                    log, gen_invoked, gen_emitted, exec_log, model_updates,
                    conf_args, conf_rets, fetched, engine, clip >>

\* handler.process_clipboard()
ProcessClipboard ==
    /\ pc = "clipboard"
    /\ Counted < MaxEvents
    /\ clip.usage_count < MaxEvents
    /\ \E detect \in {"image", "none", "raises"}, store \in {"ok", "raises"},
          replace \in {"ok", "fails"}, trigger_raises \in BOOLEAN :
          LET r == process_clipboard(metrics, detect, store, replace, trigger_raises) IN
          /\ metrics' = r.metrics
          /\ clip' = [usage_count |-> clip.usage_count + 1,
                      call |-> [before |-> metrics, after |-> r.metrics,
                                detect |-> detect, store |-> store,
                                replace |-> replace,
                                trigger_raises |-> trigger_raises, ret |-> r.ret]]
    /\ UNCHANGED << config, pc, cycle, new_outcomes, patterns, recommendations, ei,
                    log, gen_invoked, gen_emitted, exec_log, model_updates,
                    conf_args, conf_rets, fetched, engine >>

InitClip ==
    /\ config = DefaultConfig
    /\ pc = "clipboard"
    /\ cycle = 1
    /\ Idle

NextClip == RecordProcessingSuccess \/ RecordError \/ ProcessClipboard

SpecClip == InitClip /\ [][NextClip]_vars

-----------------------------------------------------------------------------
(* Properties of the clipboard seed utility *)

\* C25: once a use or an error has been counted, the stored success_rate is
\* total_uses / (total_uses + error_count) of the counters as they are.
C25_SuccessRateCurrent ==
    Counted > 0 =>
       metrics.success_rate.num * Counted = metrics.total_uses * metrics.success_rate.den

\* process_clipboard has been called; clip.call holds its last call
ProcessCalled == clip.usage_count > 0

\* C30: in a call of process_clipboard in which store_image raises,
\* error_count grows by exactly 2, total_uses stays and the call returns
\* None; in any call total_uses grows by at most one, and only when an image
\* was detected, stored and put on the clipboard as a path.
C30_StoreFailureCountedTwice ==
    ProcessCalled =>
       LET c == clip.call IN
       /\ (c.detect = "image" /\ c.store = "raises") =>
             /\ c.after.error_count = c.before.error_count + 2
             /\ c.after.total_uses = c.before.total_uses
             /\ c.ret = "None"
       /\ c.after.total_uses \in {c.before.total_uses, c.before.total_uses + 1}
       /\ c.after.total_uses > c.before.total_uses =>
             c.detect = "image" /\ c.store = "ok" /\ c.replace = "ok"

\* After one use and one error, a call in which store_image raised left
\* three errors and one use and returned None.
C30_Witness ==
    /\ ProcessCalled
    /\ clip.call.detect = "image"
    /\ clip.call.store = "raises"
    /\ clip.call.before.total_uses = 1
    /\ clip.call.before.error_count = 1
    /\ clip.call.after.total_uses = 1
    /\ clip.call.after.error_count = 3
    /\ clip.call.ret = "None"

====
